---- MODULE Spec2Model ----
\* Verification model of the SDK archive tools (sdk_tools.py: PFTParser,
\* SDKArchive) and of the SCF text container codec (scf_parser_v2.py:
\* SCFParserV2).
\*
\* Byte buffers of the archive layer (the .DSK archive, the unit files it
\* holds) are kept in a canonical sparse form, [len, nz]: len is the number of
\* bytes and nz maps the positions (0-based, as in the Python source) that
\* hold a non-zero byte to that byte.  Every position below len that is not in
\* DOMAIN nz holds 0x00.  Two buffers are equal byte for byte exactly when
\* their records are equal.  The index file (.PFT) and the unit files of the
\* SCF layer are plain sequences of bytes (1-based, so Python's data[i] is
\* data[i + 1] here).
EXTENDS Integers, Sequences, FiniteSets, TLC

VARIABLES
    archiveFile,    \* bytes of the file at archive_path (.DSK)
    indexFile,      \* bytes of the file at index_path (.PFT)
    unitDir,        \* the directory of unit files: name |-> bytes of name.SCF
    outArchive,     \* the file at output_archive when given, NoFile before it is written
    outIndex,       \* the file at output_index when given, NoFile before it is written
    unpackCall,     \* what the last unpack call read, wrote and returned
    repackCall,     \* what the last repack call read, built and returned
    touched,        \* the names of the unit files changed or removed since unpack
    scfFile,        \* bytes of the unit file given to the SCF parser
    jsonFile,       \* the JSON document written by save_for_translation, NoFile before
    txtFile,        \* the characters of the TXT written by save_for_translation, NoFile before
    parseCall,      \* the container returned by the last parse call
    rebuildCall,    \* what the last rebuild call was given and returned
    pftHeader,      \* self.header of a PFTParser; << >> stands for None
    pftEntries,     \* self.entries of a PFTParser
    readCall,       \* what the last PFTParser.read call returned
    writeCall,      \* what the last PFTParser.write call was given and wrote
    verifyCall      \* what the last verify_integrity call read, counted and returned

archiveVars == <<archiveFile, indexFile, unitDir, outArchive, outIndex,
                 unpackCall, repackCall, touched>>

scfVars == <<scfFile, jsonFile, txtFile, parseCall, rebuildCall>>

pftVars == <<pftHeader, pftEntries, readCall, writeCall>>

vars == <<archiveFile, indexFile, unitDir, outArchive, outIndex,
          unpackCall, repackCall, touched,
          scfFile, jsonFile, txtFile, parseCall, rebuildCall,
          pftHeader, pftEntries, readCall, writeCall,
          verifyCall>>

-----------------------------------------------------------------------------
\* Generic helpers

NoFile == [absent |-> TRUE]
NoCall == [called |-> FALSE]

Min(a, b) == IF a <= b THEN a ELSE b
Max(a, b) == IF a >= b THEN a ELSE b

RECURSIVE SeqMax(_)
\* max(...) of a non-empty sequence of integers
SeqMax(s) == IF Len(s) = 1 THEN s[1] ELSE Max(s[1], SeqMax(Tail(s)))

\* Python's s[a:b] on a sequence of bytes (0-based, end exclusive, clipped)
PySlice(s, a, b) == SubSeq(s, Min(a, Len(s)) + 1, Min(b, Len(s)))

\* struct.pack('<I', v) and struct.unpack('<I', b)
PackU32(v) == << v % 256, (v \div 256) % 256, (v \div 65536) % 256, (v \div 16777216) % 256 >>
UnpackU32(b) == b[1] + 256 * b[2] + 65536 * b[3] + 16777216 * b[4]

-----------------------------------------------------------------------------
\* Sparse byte buffers

EmptyMap == [p \in {} |-> 0]

\* bytearray(n): n zero bytes
Zeros(n) == [len |-> n, nz |-> EmptyMap]

ByteAt(b, p) == IF p \in DOMAIN b.nz THEN b.nz[p] ELSE 0

\* b[lo:hi] of a bytes object
BufSlice(b, lo, hi) ==
    LET l == Min(lo, b.len)
        h == Max(l, Min(hi, b.len))
        keep == {p \in DOMAIN b.nz : p >= l /\ p < h}
    IN [len |-> h - l,
        nz  |-> [q \in {p - l : p \in keep} |-> b.nz[q + l]]]

\* mutant of BufSliceAssign: the buffer keeps its length, the bytes of d that
\* do not fit in the slice are left out
BufSliceAssign_NoGrow(b, lo, hi, d) ==
    LET l == Min(lo, b.len)
        h == Max(l, Min(hi, b.len))
        mid == {l + q : q \in {r \in DOMAIN d.nz : r < h - l}}
        rest == {p \in DOMAIN b.nz : p < l \/ p >= h}
    IN [len |-> b.len,
        nz  |-> [p \in rest \cup mid |->
                    IF p \in mid THEN d.nz[p - l] ELSE b.nz[p]]]

\* b[lo:hi] = d on a bytearray: the (clipped) slice is replaced by d, the
\* bytes after it move, and the buffer grows when d is longer than the slice
BufSliceAssign(b, lo, hi, d) ==
    LET l == Min(lo, b.len)
        h == Max(l, Min(hi, b.len))
        shift == d.len - (h - l)
        head == {p \in DOMAIN b.nz : p < l}
        tail == {p \in DOMAIN b.nz : p >= h}
        mid  == {l + q : q \in DOMAIN d.nz}
    IN [len |-> b.len + shift,
        nz  |-> [p \in head \cup mid \cup {t + shift : t \in tail} |->
                    IF p < l THEN b.nz[p]
                    ELSE IF p < l + d.len THEN d.nz[p - l]
                    ELSE b.nz[p - shift]]]

-----------------------------------------------------------------------------
\* PFTParser: the index table codec.  An entry is the tuple (name, idx, size)
\* of the source, kept as a record; a name is the sequence of its character
\* codes.

\* bytes.decode('ascii', errors='ignore'): bytes above 0x7F are dropped
AsciiDecodeIgnore(bs) == SelectSeq(bs, LAMBDA b : b < 128)

RECURSIVE RStripNul(_)
\* str.rstrip('\x00')
RStripNul(s) ==
    IF Len(s) > 0 /\ s[Len(s)] = 0 THEN RStripNul(SubSeq(s, 1, Len(s) - 1)) ELSE s

\* name_bytes.decode('ascii', errors='ignore').rstrip('\x00')
DecodeName(name_bytes) == RStripNul(AsciiDecodeIgnore(name_bytes))

RECURSIVE ReadEntries_SkipsEmptyNames(_, _)
\* mutant of ReadEntries: a record with an empty name is passed over and the
\* scan goes on
ReadEntries_SkipsEmptyNames(data, offset) ==
    IF ~(offset < Len(data)) THEN << >>
    ELSE IF offset + 16 > Len(data) THEN << >>
    ELSE LET name == DecodeName(PySlice(data, offset, offset + 8))
             idx  == UnpackU32(PySlice(data, offset + 8, offset + 12))
             size == UnpackU32(PySlice(data, offset + 12, offset + 16))
         IN (IF name = << >> THEN << >>
             ELSE << [name |-> name, idx |-> idx, size |-> size] >>)
                \o ReadEntries_SkipsEmptyNames(data, offset + 16)

RECURSIVE ReadEntries(_, _)
\* the while loop of PFTParser.read, started at byte `offset`
ReadEntries(data, offset) ==
    IF ~(offset < Len(data)) THEN << >>
    ELSE IF offset + 16 > Len(data) THEN << >>
    ELSE LET name == DecodeName(PySlice(data, offset, offset + 8))
             idx  == UnpackU32(PySlice(data, offset + 8, offset + 12))
             size == UnpackU32(PySlice(data, offset + 12, offset + 16))
         IN IF name = << >> THEN << >>
            ELSE << [name |-> name, idx |-> idx, size |-> size] >>
                     \o ReadEntries(data, offset + 16)

\* mutant of PFTRead: a header shorter than 16 bytes is accepted
PFTRead_AcceptsShortHeader(data) ==
    [ok |-> TRUE, header |-> PySlice(data, 0, 16), entries |-> ReadEntries(data, 16)]

\* PFTParser.read: self.header is set to data[0:16], then struct.unpack raises
\* struct.error on a header shorter than 16 bytes (ok = FALSE, nothing is
\* returned); otherwise self.entries is filled and returned
PFTRead(data) ==
    IF Len(data) < 16
    THEN [ok |-> FALSE, header |-> PySlice(data, 0, 16), entries |-> << >>]
    ELSE [ok |-> TRUE, header |-> PySlice(data, 0, 16), entries |-> ReadEntries(data, 16)]

\* mutant of NameBytes: the name is filled up with spaces
NameBytes_SpacePadded(name) ==
    LET cut == PySlice(name, 0, 8)
    IN cut \o [i \in 1..(8 - Len(cut)) |-> 32]

\* name.encode('ascii')[:8].ljust(8, b'\x00')
NameBytes(name) ==
    LET cut == PySlice(name, 0, 8)
    IN cut \o [i \in 1..(8 - Len(cut)) |-> 0]

\* mutant of EntryBytes: byteSize is written before blockIndex
EntryBytes_SizeFirst(e) == NameBytes(e.name) \o PackU32(e.size) \o PackU32(e.idx)

\* one record written by PFTParser.write
EntryBytes(e) == NameBytes(e.name) \o PackU32(e.idx) \o PackU32(e.size)

RECURSIVE EntriesBytes(_)
EntriesBytes(entries) ==
    IF entries = << >> THEN << >>
    ELSE EntryBytes(Head(entries)) \o EntriesBytes(Tail(entries))

\* struct.pack('<IIHH4x', 0x08000010, count, 0, 0): the header written when
\* no header was read
DefaultHeader(count) == << 16, 0, 0, 8 >> \o PackU32(count) \o << 0, 0, 0, 0, 0, 0, 0, 0 >>

\* mutant of PatchCount: the entry count of the header is left as it was read
PatchCount_Unpatched(header, count) == header

\* mutant of PatchCount: the count is patched and the bytes after it are cleared
PatchCount_ClearsRest(header, count) ==
    PySlice(header, 0, 4) \o PackU32(count) \o << 0, 0, 0, 0, 0, 0, 0, 0 >>

\* struct.pack_into('<I', header_data, 4, count)
PatchCount(header, count) ==
    PySlice(header, 0, 4) \o PackU32(count) \o PySlice(header, 8, Len(header))

\* PFTParser.write: the bytes written to output_path; `header` is self.header
\* (the empty sequence stands for None, both are false in `if self.header`)
PFTWrite(header, entries) ==
    (IF header # << >> THEN PatchCount(header, Len(entries))
     ELSE DefaultHeader(Len(entries)))
    \o EntriesBytes(entries)

-----------------------------------------------------------------------------
\* SDKArchive: unpack and repack

BLOCK_SIZE == 2048

\* mutant of BlockOffset: the index field is taken as a byte offset
BlockOffset_AsByteOffset(idx) == idx

\* offset = idx * self.BLOCK_SIZE
BlockOffset(idx) == idx * BLOCK_SIZE

\* mutant of InRange: an entry that ends exactly at the end of the archive is refused
InRange_Strict(offset, size, archive_len) == offset + size < archive_len

\* the range test of unpack: offset + size <= len(archive_data)
InRange(offset, size, archive_len) == offset + size <= archive_len

\* open(path, 'wb').write(data) in directory dir
WriteFile(dir, name, data) ==
    [n \in DOMAIN dir \cup {name} |-> IF n = name THEN data ELSE dir[n]]

\* mutant of UnpackEntry: the whole block is extracted, not byteSize bytes
UnpackEntry_WholeBlock(e, archive_data, st) ==
    LET offset == BlockOffset(e.idx)
    IN IF InRange(offset, e.size, archive_data.len)
       THEN LET scf_data == BufSlice(archive_data, offset, offset + BLOCK_SIZE)
            IN [dir       |-> WriteFile(st.dir, e.name, scf_data),
                writes    |-> Append(st.writes, [name |-> e.name, data |-> scf_data]),
                extracted |-> st.extracted + 1]
       ELSE st

\* one iteration of the extraction loop of unpack; st carries the directory,
\* the file writes made so far and the counter `extracted`
UnpackEntry(e, archive_data, st) ==
    LET offset == BlockOffset(e.idx)
    IN IF InRange(offset, e.size, archive_data.len)
       THEN LET scf_data == BufSlice(archive_data, offset, offset + e.size)
            IN [dir       |-> WriteFile(st.dir, e.name, scf_data),
                writes    |-> Append(st.writes, [name |-> e.name, data |-> scf_data]),
                extracted |-> st.extracted + 1]
       ELSE st

RECURSIVE UnpackLoop(_, _, _)
\* for name, idx, size in entries: ...
UnpackLoop(entries, archive_data, st) ==
    IF entries = << >> THEN st
    ELSE UnpackLoop(Tail(entries), archive_data, UnpackEntry(Head(entries), archive_data, st))

\* mutant of TotalBlocks: the highest block number is taken as the block count
TotalBlocks_NoPlusOne(original_entries) ==
    SeqMax([i \in 1..Len(original_entries) |-> original_entries[i].idx])

\* total_blocks = max(idx for _, idx, _ in original_entries) + 1
TotalBlocks(original_entries) ==
    SeqMax([i \in 1..Len(original_entries) |-> original_entries[i].idx]) + 1

\* mutant of RepackEntry: the original size is recorded instead of the new one
RepackEntry_KeepsOrigSize(e, dir, st) ==
    IF e.name \notin DOMAIN dir THEN st
    ELSE LET scf_data == dir[e.name]
             offset   == e.idx * 2048
         IN [new_entries  |-> Append(st.new_entries, e),
             archive_data |-> BufSliceAssign(st.archive_data, offset, offset + scf_data.len,
                                             scf_data)]

\* mutant of RepackEntry: the blocks are renumbered in packing order
RepackEntry_Renumbers(e, dir, st) ==
    IF e.name \notin DOMAIN dir THEN st
    ELSE LET scf_data == dir[e.name]
             new_idx  == Len(st.new_entries)
             offset   == new_idx * 2048
         IN [new_entries  |-> Append(st.new_entries,
                                     [name |-> e.name, idx |-> new_idx, size |-> scf_data.len]),
             archive_data |-> BufSliceAssign(st.archive_data, offset, offset + scf_data.len,
                                             scf_data)]

\* mutant of RepackEntry: a unit file is written up to the end of its block only
RepackEntry_StopsAtBlockEnd(e, dir, st) ==
    IF e.name \notin DOMAIN dir THEN st
    ELSE LET scf_data == dir[e.name]
             new_size == scf_data.len
             offset   == BlockOffset(e.idx)
             written  == BufSlice(scf_data, 0, BLOCK_SIZE)
         IN [new_entries  |-> Append(st.new_entries,
                                     [name |-> e.name, idx |-> e.idx, size |-> new_size]),
             archive_data |-> BufSliceAssign(st.archive_data, offset, offset + written.len,
                                             written)]

\* one iteration of the packing loop of repack; st carries archive_data and
\* new_entries
RepackEntry(e, dir, st) ==
    IF e.name \notin DOMAIN dir THEN st
    ELSE LET scf_data == dir[e.name]
             new_size == scf_data.len
             offset   == BlockOffset(e.idx)
         IN [new_entries  |-> Append(st.new_entries,
                                     [name |-> e.name, idx |-> e.idx, size |-> new_size]),
             archive_data |-> BufSliceAssign(st.archive_data, offset, offset + new_size,
                                             scf_data)]

RECURSIVE RepackLoop(_, _, _)
\* for name, orig_idx, orig_size in original_entries: ...
RepackLoop(entries, dir, st) ==
    IF entries = << >> THEN st
    ELSE RepackLoop(Tail(entries), dir, RepackEntry(Head(entries), dir, st))

-----------------------------------------------------------------------------
\* sdk_verify: the integrity check of an index against an archive

RECURSIVE AnalyzeEntries(_, _)
\* the while loop of analyze_pft, started at byte `offset`
AnalyzeEntries(data, offset) ==
    IF ~(offset < Len(data) /\ offset + 16 <= Len(data)) THEN << >>
    ELSE LET name == RStripNul(AsciiDecodeIgnore(PySlice(data, offset, offset + 8)))
             idx  == UnpackU32(PySlice(data, offset + 8, offset + 12))
             size == UnpackU32(PySlice(data, offset + 12, offset + 16))
         IN IF name = << >> THEN << >>
            ELSE << [name |-> name, idx |-> idx, size |-> size] >>
                     \o AnalyzeEntries(data, offset + 16)

RECURSIVE Cumulative(_)
\* cumulative += size over the entries
Cumulative(entries) ==
    IF entries = << >> THEN 0 ELSE Head(entries).size + Cumulative(Tail(entries))

\* analyze_pft(pft_path): struct.unpack raises on a header shorter than 16
\* bytes (ok is FALSE); otherwise the entries and the sum of their sizes
AnalyzePft(data) ==
    IF Len(data) < 16
    THEN [ok |-> FALSE, entries |-> << >>, cumulative |-> 0]
    ELSE LET entries == AnalyzeEntries(data, 16)
         IN [ok |-> TRUE, entries |-> entries, cumulative |-> Cumulative(entries)]

RECURSIVE VerifyEntries(_, _, _)
\* the entry loop of verify_integrity: the number of entries for which
\* offset + size > actual_size, offset being the sum of the sizes before
VerifyEntries(entries, offset, actual_size) ==
    IF entries = << >> THEN 0
    ELSE (IF offset + Head(entries).size > actual_size THEN 1 ELSE 0)
             + VerifyEntries(Tail(entries), offset + Head(entries).size, actual_size)

\* verify_integrity(pft_path, archive_path)
VerifyIntegrity(pft_data, archive_data) ==
    LET pft == AnalyzePft(pft_data)
        actual_size == archive_data.len
        errors == VerifyEntries(pft.entries, 0, actual_size)
    IN IF ~pft.ok THEN [ok |-> FALSE]
       ELSE [ok |-> TRUE,
             entries |-> pft.entries,
             expected_size |-> pft.cumulative,
             actual_size |-> actual_size,
             errors |-> errors,
             returned |-> (errors = 0 /\ pft.cumulative = actual_size)]

-----------------------------------------------------------------------------
\* SCFParserV2: the segmented text container codec.  A unit file is a sequence
\* of bytes, a text a sequence of Unicode code points.

\* The part of the shift_jis codec the model draws its bytes and characters
\* from: ASCII bytes stand for themselves, 0xA1..0xDF are the half-width
\* katakana U+FF61..U+FF9F, and two double-byte characters are known:
\* 0x82 0xA0 is U+3042 (HIRAGANA A) and 0x82 0x82 is U+FF42 (FULLWIDTH b).
SjisPairs == (<< 130, 160 >> :> 12354) @@ (<< 130, 130 >> :> 65346)

RECURSIVE SjisDecodeIgnore(_)
\* bytes.decode('shift_jis', errors='ignore'): a byte that starts no valid
\* character is dropped and decoding goes on with the next byte
SjisDecodeIgnore(bs) ==
    IF bs = << >> THEN << >>
    ELSE LET b == Head(bs)
         IN IF b < 128 THEN << b >> \o SjisDecodeIgnore(Tail(bs))
            ELSE IF b >= 161 /\ b <= 223
                 THEN << 65377 + (b - 161) >> \o SjisDecodeIgnore(Tail(bs))
            ELSE IF Len(bs) >= 2 /\ << b, bs[2] >> \in DOMAIN SjisPairs
                 THEN << SjisPairs[<< b, bs[2] >>] >> \o SjisDecodeIgnore(Tail(Tail(bs)))
            ELSE SjisDecodeIgnore(Tail(bs))

\* the bytes of one character, << >> when shift_jis has none for it
SjisCharBytes(c) ==
    IF c < 128 THEN << c >>
    ELSE IF c >= 65377 /\ c <= 65439 THEN << 161 + (c - 65377) >>
    ELSE IF \E pr \in DOMAIN SjisPairs : SjisPairs[pr] = c
         THEN CHOOSE pr \in DOMAIN SjisPairs : SjisPairs[pr] = c
    ELSE << >>

RECURSIVE SjisConcat(_)
SjisConcat(text) ==
    IF text = << >> THEN << >> ELSE SjisCharBytes(Head(text)) \o SjisConcat(Tail(text))

\* str.encode('shift_jis'): raises UnicodeEncodeError (ok = FALSE) when a
\* character has no encoding
SjisEncode(text) ==
    IF \E i \in 1..Len(text) : SjisCharBytes(text[i]) = << >>
    THEN [ok |-> FALSE, bytes |-> << >>]
    ELSE [ok |-> TRUE, bytes |-> SjisConcat(text)]

\* '぀' <= c <= 'ヿ' or '一' <= c <= '鿿' for some c
ContainsJapanese(decoded) ==
    \E i \in 1..Len(decoded) :
        \/ 12352 <= decoded[i] /\ decoded[i] <= 12543
        \/ 19968 <= decoded[i] /\ decoded[i] <= 40959

RECURSIVE RunEnd(_, _)
\* the inner while loop of parse: the first i at or after the given one with
\* i = len(data) or data[i] = 0x00
RunEnd(data, i) ==
    IF i < Len(data) /\ data[i + 1] # 0 THEN RunEnd(data, i + 1) ELSE i

\* mutant of SegmentLength: the terminator is counted once more
SegmentLength_CountsTerminatorTwice(segment) == Len(segment) + 1

\* 'length': len(segment)
SegmentLength(segment) == Len(segment)

RECURSIVE ParseFrom(_, _, _)
\* the outer while loop of parse, from position i with the segments found so far
ParseFrom(data, i, text_segments) ==
    IF ~(i < Len(data)) THEN text_segments
    ELSE LET start == i
             j == RunEnd(data, i)
             terminated == j < Len(data) /\ data[j + 1] = 0
             segment == PySlice(data, start, j) \o (IF terminated THEN << 0 >> ELSE << >>)
             next_i == IF terminated THEN j + 1 ELSE j
             text_content == SubSeq(segment, 1, Len(segment) - 1)
             decoded == SjisDecodeIgnore(text_content)
         IN IF Len(segment) > 1 /\ text_content # << >> /\ ContainsJapanese(decoded)
            THEN ParseFrom(data, next_i,
                           Append(text_segments,
                                  [offset |-> start, length |-> SegmentLength(segment),
                                   original |-> segment, text |-> decoded]))
            ELSE ParseFrom(data, next_i, text_segments)

\* mutant of OriginalData: only the bytes up to the last null byte are kept
OriginalData_DropsUnterminatedTail(data) ==
    SubSeq(data, 1, CHOOSE n \in 0..Len(data) :
                        /\ n = 0 \/ data[n] = 0
                        /\ \A m \in (n + 1)..Len(data) : data[m] # 0)

\* 'original_data': list(data)
OriginalData(data) == data

\* SCFParserV2.parse, on the bytes read from the file; the encoding is the
\* default 'shift_jis'
ParseUnit(data) ==
    [original_data |-> OriginalData(data),
     size          |-> Len(data),
     encoding      |-> "shift_jis",
     text_segments |-> ParseFrom(data, 0, << >>)]

\* SCFParserV2.extract_texts
ExtractTexts(parsed_data) ==
    [i \in 1..Len(parsed_data.text_segments) |-> parsed_data.text_segments[i].text]

\* del data[offset:offset + old_length], then data.insert(offset + j, byte)
\* for each byte of new_bytes (insert at a position past the end appends)
Splice(data, offset, old_length, new_bytes) ==
    LET removed == PySlice(data, 0, offset) \o PySlice(data, offset + old_length, Len(data))
        at == Min(offset, Len(removed))
    IN PySlice(removed, 0, at) \o new_bytes \o PySlice(removed, at, Len(removed))

\* mutant of ReplaceSegment: a text that cannot be encoded empties the segment
ReplaceSegment_EmptiesUnencodable(data, seg, new_text) ==
    LET enc == SjisEncode(new_text)
    IN Splice(data, seg.offset, seg.length, (IF enc.ok THEN enc.bytes ELSE << >>) \o << 0 >>)

\* the body of the replacement loop of rebuild for segment i (0-based)
ReplaceSegment(data, seg, new_text) ==
    LET enc == SjisEncode(new_text)
    IN IF enc.ok
       THEN Splice(data, seg.offset, seg.length, enc.bytes \o << 0 >>)
       ELSE data

RECURSIVE ReplaceDown_Ascending(_, _, _, _)
\* mutant of ReplaceDown: the segments are replaced from first to last
ReplaceDown_Ascending(data, segments, new_texts, i) ==
    IF i < 0 THEN data
    ELSE ReplaceSegment(ReplaceDown_Ascending(data, segments, new_texts, i - 1),
                        segments[i + 1], new_texts[i + 1])

RECURSIVE ReplaceDown(_, _, _, _)
\* for i in range(min(len(segments), len(new_texts)) - 1, -1, -1): ...
ReplaceDown(data, segments, new_texts, i) ==
    IF i < 0 THEN data
    ELSE ReplaceDown(ReplaceSegment(data, segments[i + 1], new_texts[i + 1]),
                     segments, new_texts, i - 1)

\* the argument new_texts of rebuild: None, or a list of texts
NoTexts == [none |-> TRUE, list |-> << >>]
TextList(texts) == [none |-> FALSE, list |-> texts]

\* mutant of RebuildUnit: a list whose length is not the number of segments
\* is refused and the original data returned
RebuildUnit_RequiresEqualCounts(parsed_data, new_texts) ==
    IF new_texts.none \/ new_texts.list = << >>
          \/ Len(new_texts.list) # Len(parsed_data.text_segments)
    THEN parsed_data.original_data
    ELSE ReplaceDown(parsed_data.original_data, parsed_data.text_segments, new_texts.list,
                     Len(new_texts.list) - 1)

\* SCFParserV2.rebuild; `not new_texts` holds for None and for the empty list
RebuildUnit(parsed_data, new_texts) ==
    IF new_texts.none \/ new_texts.list = << >>
    THEN parsed_data.original_data
    ELSE ReplaceDown(parsed_data.original_data, parsed_data.text_segments, new_texts.list,
                     Min(Len(parsed_data.text_segments), Len(new_texts.list)) - 1)

\* mutant of ContainerAfterRebuild: rebuild splices into the stored bytes
ContainerAfterRebuild_InPlace(parsed_data, new_texts) ==
    [parsed_data EXCEPT !.original_data = RebuildUnit(parsed_data, new_texts)]

\* the container after rebuild returned: data = bytearray(parsed_data[
\* 'original_data']) is a new buffer, the deletions and insertions go to it,
\* and no statement of rebuild assigns into parsed_data
ContainerAfterRebuild(parsed_data, new_texts) == parsed_data

\* json.dump(parsed) followed by json.load: the document holds the integers,
\* strings and lists of the container as they are
JsonDocument(parsed_data) ==
    [original_data |-> parsed_data.original_data,
     size          |-> parsed_data.size,
     encoding      |-> parsed_data.encoding,
     text_segments |-> parsed_data.text_segments]

RECURSIVE TxtImage(_)
\* for text in texts: f.write(text + '\n'), as the characters of the file
\* (UTF-8 holds every character the decoder can return)
TxtImage(texts) ==
    IF texts = << >> THEN << >> ELSE Head(texts) \o << 10 >> \o TxtImage(Tail(texts))

RECURSIVE UniversalNewlines(_)
\* reading in text mode: '\r\n' and '\r' are given as '\n'
UniversalNewlines(chars) ==
    IF chars = << >> THEN << >>
    ELSE IF Head(chars) = 13
         THEN << 10 >> \o UniversalNewlines(
                  IF Len(chars) >= 2 /\ chars[2] = 10 THEN Tail(Tail(chars)) ELSE Tail(chars))
    ELSE << Head(chars) >> \o UniversalNewlines(Tail(chars))

RECURSIVE SplitLines(_, _)
\* [line.rstrip('\n') for line in f]: one entry per line, a last line without
\* a line break included; cur is the line being read
SplitLines(chars, cur) ==
    IF chars = << >> THEN (IF cur = << >> THEN << >> ELSE << cur >>)
    ELSE IF Head(chars) = 10 THEN << cur >> \o SplitLines(Tail(chars), << >>)
    ELSE SplitLines(Tail(chars), Append(cur, Head(chars)))

ReadTxtLines(chars) == SplitLines(UniversalNewlines(chars), << >>)

-----------------------------------------------------------------------------
\* The archive layer as a state machine (SpecArchive)

MaxEntries == 2

NameA == << 65 >>
NameB == << 66 >>
Names == {NameA, NameB}
BlockNumbers == {0, 1}
EntrySizes == {1, BLOCK_SIZE + 1}

\* the index entries the initial index file may hold
EntryChoices == [name : Names, idx : BlockNumbers, size : EntrySizes]

OriginalEntryLists ==
    UNION {[1..n -> EntryChoices] : n \in 0..MaxEntries}

\* the header of the initial index file: magic, entry count, and non-zero
\* bytes in the fields whose meaning is unknown
OriginalHeader(count) == << 16, 0, 0, 8 >> \o PackU32(count) \o << 1, 0, 2, 0, 3, 4, 5, 6 >>

IndexImage(entries) == OriginalHeader(Len(entries)) \o EntriesBytes(entries)

\* the initial archives: a length, and one of three contents: all zero,
\* a byte at the start of each block, or these and a byte at position 1
ArchiveLens == {BLOCK_SIZE, 2 * BLOCK_SIZE, 2 * BLOCK_SIZE + 1}
ArchiveContents == {EmptyMap,
                    (0 :> 17 @@ BLOCK_SIZE :> 51),
                    (0 :> 17 @@ 1 :> 34 @@ BLOCK_SIZE :> 51)}
OriginalArchives ==
    {[len |-> n, nz |-> [p \in {q \in DOMAIN c : q < n} |-> c[p]]] :
        n \in ArchiveLens, c \in ArchiveContents}

\* the unit files an edit may put in the directory
EditedUnits ==
    {[len |-> 1, nz |-> (0 :> 187)],
     [len |-> BLOCK_SIZE + 1, nz |-> (0 :> 187 @@ BLOCK_SIZE :> 204)]}

InitArchive ==
    /\ archiveFile \in OriginalArchives
    /\ \E entries \in OriginalEntryLists : indexFile = IndexImage(entries)
    /\ unitDir = EmptyMap
    /\ outArchive = NoFile
    /\ outIndex = NoFile
    /\ unpackCall = NoCall
    /\ repackCall = NoCall
    /\ touched = {}
    /\ scfFile = << >>
    /\ jsonFile = NoFile
    /\ txtFile = NoFile
    /\ parseCall = NoCall
    /\ rebuildCall = NoCall
    /\ pftHeader = << >>
    /\ pftEntries = << >>
    /\ readCall = NoCall
    /\ writeCall = NoCall
    /\ verifyCall = NoCall

\* SDKArchive.unpack(output_dir), output_dir being the unit directory
Unpack ==
    /\ ~unpackCall.called
    /\ ~repackCall.called
    /\ \E pft \in {PFTRead(indexFile)} :
          IF ~pft.ok
          THEN /\ unpackCall' = [called |-> TRUE, ok |-> FALSE]
               /\ unitDir' = unitDir
          ELSE \E done \in {UnpackLoop(pft.entries, archiveFile,
                                       [dir |-> unitDir, writes |-> << >>, extracted |-> 0])} :
               /\ unpackCall' = [called |-> TRUE, ok |-> TRUE,
                                 entries |-> pft.entries,
                                 archive_data |-> archiveFile,
                                 writes |-> done.writes,
                                 extracted |-> done.extracted]
               /\ unitDir' = done.dir
    /\ UNCHANGED <<archiveFile, indexFile, outArchive, outIndex, repackCall, touched>>
    /\ UNCHANGED scfVars
    /\ UNCHANGED pftVars
    /\ UNCHANGED verifyCall

\* a unit file is replaced by the rebuild step of the workflow
EditUnit(name, data) ==
    /\ unpackCall.called
    /\ ~repackCall.called
    /\ name \notin touched
    /\ unitDir' = WriteFile(unitDir, name, data)
    /\ touched' = touched \cup {name}
    /\ UNCHANGED <<archiveFile, indexFile, outArchive, outIndex, unpackCall, repackCall>>
    /\ UNCHANGED scfVars
    /\ UNCHANGED pftVars
    /\ UNCHANGED verifyCall

\* a unit file is absent from the directory given to repack
DeleteUnit(name) ==
    /\ unpackCall.called
    /\ ~repackCall.called
    /\ name \notin touched
    /\ name \in DOMAIN unitDir
    /\ unitDir' = [n \in DOMAIN unitDir \ {name} |-> unitDir[n]]
    /\ touched' = touched \cup {name}
    /\ UNCHANGED <<archiveFile, indexFile, outArchive, outIndex, unpackCall, repackCall>>
    /\ UNCHANGED scfVars
    /\ UNCHANGED pftVars
    /\ UNCHANGED verifyCall

\* mutant of NewArchiveBuffer: the buffer is the file at archive_path, cut or
\* filled with zeros to the block count
NewArchiveBuffer_FromOriginal(archive_file, total_blocks) ==
    LET size == total_blocks * BLOCK_SIZE
    IN [len |-> size,
        nz  |-> [p \in {q \in DOMAIN archive_file.nz : q < size} |-> archive_file.nz[p]]]

\* archive_data = bytearray(total_blocks * self.BLOCK_SIZE): repack starts
\* from zeros and does not open the file at archive_path for reading
NewArchiveBuffer(archive_file, total_blocks) == Zeros(total_blocks * BLOCK_SIZE)

\* mutant of OutputIsOriginal: the originals are never the output
OutputIsOriginal_Never(with_outputs) == FALSE

\* output_archive = output_archive or self.archive_path, and the same for the
\* index: a path left out is the path of the original
OutputIsOriginal(with_outputs) == ~with_outputs

\* SDKArchive.repack(input_dir, output_archive, output_index); with_outputs is
\* FALSE when the two output paths are left out and default to the originals
Repack(with_outputs) ==
    /\ ~repackCall.called
    /\ \E pft \in {PFTRead(indexFile)} :
          IF ~pft.ok \/ pft.entries = << >>
          THEN \* struct.error from read, or ValueError from max() of nothing
               /\ repackCall' = [called |-> TRUE, ok |-> FALSE,
                                 with_outputs |-> with_outputs,
                                 archive_before |-> archiveFile,
                                 index_before |-> indexFile]
               /\ UNCHANGED <<archiveFile, indexFile, outArchive, outIndex>>
          ELSE \E done \in {RepackLoop(pft.entries, unitDir,
                                       [archive_data |-> NewArchiveBuffer(archiveFile,
                                                                          TotalBlocks(pft.entries)),
                                        new_entries |-> << >>])} :
               \E index_bytes \in {PFTWrite(pft.header, done.new_entries)} :
                  /\ repackCall' = [called |-> TRUE, ok |-> TRUE,
                                    with_outputs |-> with_outputs,
                                    archive_before |-> archiveFile,
                                    index_before |-> indexFile,
                                    original_entries |-> pft.entries,
                                    input_dir |-> unitDir,
                                    archive_data |-> done.archive_data,
                                    new_entries |-> done.new_entries,
                                    index_bytes |-> index_bytes,
                                    returned |-> Len(done.new_entries)]
                  /\ IF ~OutputIsOriginal(with_outputs)
                     THEN /\ outArchive' = done.archive_data
                          /\ outIndex' = index_bytes
                          /\ UNCHANGED <<archiveFile, indexFile>>
                     ELSE /\ archiveFile' = done.archive_data
                          /\ indexFile' = index_bytes
                          /\ UNCHANGED <<outArchive, outIndex>>
    /\ UNCHANGED <<unitDir, unpackCall, touched>>
    /\ UNCHANGED scfVars
    /\ UNCHANGED pftVars
    /\ UNCHANGED verifyCall

NextArchive ==
    \/ Unpack
    \/ \E name \in Names, data \in EditedUnits : EditUnit(name, data)
    \/ \E name \in Names : DeleteUnit(name)
    \/ \E with_outputs \in BOOLEAN : Repack(with_outputs)

SpecArchive == InitArchive /\ [][NextArchive]_vars

-----------------------------------------------------------------------------
\* A second round on the output of repack (SpecRepackTwice)

\* SDKArchive(archive_path, index_path) on a copy of the archive and the index
\* a repack call wrote, with a new, empty unit directory; the record of that
\* repack call is kept in `first`
OpenOutput ==
    /\ repackCall.called
    /\ repackCall.ok
    /\ repackCall.with_outputs
    /\ archiveFile' = outArchive
    /\ indexFile' = outIndex
    /\ unitDir' = EmptyMap
    /\ unpackCall' = NoCall
    /\ repackCall' = [called |-> FALSE, first |-> repackCall]
    /\ UNCHANGED <<outArchive, outIndex, touched>>
    /\ UNCHANGED scfVars
    /\ UNCHANGED pftVars
    /\ UNCHANGED verifyCall

\* first round: unpack, edits, and a repack to output paths; second round:
\* unpack and repack of the unchanged files, in place, on the copy
NextRepackTwice ==
    \/ Unpack
    \/ /\ outArchive = NoFile
       /\ \E name \in Names, data \in EditedUnits : EditUnit(name, data)
    \/ /\ outArchive = NoFile
       /\ \E name \in Names : DeleteUnit(name)
    \/ /\ outArchive = NoFile
       /\ Repack(TRUE)
    \/ OpenOutput
    \/ /\ outArchive # NoFile
       /\ unpackCall.called
       /\ Repack(FALSE)

SpecRepackTwice == InitArchive /\ [][NextRepackTwice]_vars

-----------------------------------------------------------------------------
\* The same repack over another original archive (SpecRepackOther)

\* archives that differ in length and in every byte the unit files can reach
OtherArchives ==
    {Zeros(0),
     [len |-> 1, nz |-> (0 :> 238)],
     [len |-> 3 * BLOCK_SIZE,
      nz  |-> [p \in {0, 1, 2, BLOCK_SIZE - 1, BLOCK_SIZE, BLOCK_SIZE + 1,
                      2 * BLOCK_SIZE - 1, 2 * BLOCK_SIZE, 2 * BLOCK_SIZE + 1,
                      3 * BLOCK_SIZE - 1} |-> 238]]}

\* the file at archive_path is replaced by another archive after a repack to
\* output paths; the index and the unit directory stay, and the record of the
\* repack call is kept in `first`
SwapArchive(archive) ==
    /\ repackCall.called
    /\ repackCall.ok
    /\ repackCall.with_outputs
    /\ archive # archiveFile
    /\ archiveFile' = archive
    /\ repackCall' = [called |-> FALSE, first |-> repackCall]
    /\ UNCHANGED <<indexFile, unitDir, outArchive, outIndex, unpackCall, touched>>
    /\ UNCHANGED scfVars
    /\ UNCHANGED pftVars
    /\ UNCHANGED verifyCall

\* first run: unpack, edits, and a repack to output paths; second run: a
\* repack in place with the same index and unit files over another archive
NextRepackOther ==
    \/ /\ outArchive = NoFile
       /\ Unpack
    \/ /\ outArchive = NoFile
       /\ \E name \in Names, data \in EditedUnits : EditUnit(name, data)
    \/ /\ outArchive = NoFile
       /\ \E name \in Names : DeleteUnit(name)
    \/ /\ outArchive = NoFile
       /\ Repack(TRUE)
    \/ \E archive \in OtherArchives : SwapArchive(archive)
    \/ /\ outArchive # NoFile
       /\ Repack(FALSE)

SpecRepackOther == InitArchive /\ [][NextRepackOther]_vars

-----------------------------------------------------------------------------
\* The verifier on the output of repack (SpecVerify)

\* sdk_verify.py verify <pft> <archive> on the index and the archive a repack
\* call wrote to its output paths
Verify ==
    /\ repackCall.called
    /\ repackCall.ok
    /\ outArchive # NoFile
    /\ outIndex # NoFile
    /\ ~verifyCall.called
    /\ \E r \in {VerifyIntegrity(outIndex, outArchive)} :
          verifyCall' = [called |-> TRUE, pft_data |-> outIndex, archive_data |-> outArchive,
                         result |-> r]
    /\ UNCHANGED archiveVars
    /\ UNCHANGED scfVars
    /\ UNCHANGED pftVars

NextVerify ==
    \/ Unpack
    \/ \E name \in Names, data \in EditedUnits : EditUnit(name, data)
    \/ \E name \in Names : DeleteUnit(name)
    \/ Repack(TRUE)
    \/ Verify

SpecVerify == InitArchive /\ [][NextVerify]_vars

-----------------------------------------------------------------------------
\* The SCF layer as a state machine (SpecSCF)

MaxUnitLen == 3
MaxChunks == 2
MaxTexts == 2

\* 0x00, line feed, 'A', the lead byte 0x82, and 0xA0 (the second byte of
\* HIRAGANA A; no character on its own)
ByteAlphabet == {0, 10, 65, 130, 160}

\* every unit file of up to MaxUnitLen bytes
ShortUnits == UNION {[1..n -> ByteAlphabet] : n \in 0..MaxUnitLen}

\* longer unit files are made of up to MaxChunks runs: a text, a run that is
\* no text, a run that is no text followed by a text, a text with a byte the
\* decoder drops, a text with a line feed in it, and a text followed by 'A'
\* with no terminator
Chunks == {<< 130, 160, 0 >>,
           << 65, 0 >>,
           << 65, 0, 130, 160, 0 >>,
           << 130, 160, 160, 0 >>,
           << 130, 160, 10, 130, 160, 0 >>,
           << 130, 160, 65 >>}

RECURSIVE ChunkUnits(_)
ChunkUnits(n) ==
    IF n = 0 THEN {<< >>}
    ELSE LET shorter == ChunkUnits(n - 1)
         IN shorter \cup {u \o c : u \in shorter, c \in Chunks}

Units == ShortUnits \cup ChunkUnits(MaxChunks)

\* replacement texts: 'A', two HIRAGANA A, the empty text, and the euro sign,
\* which shift_jis cannot encode
ReplacementTexts == {<< 65 >>, << 12354, 12354 >>, << >>, << 8364 >>}

ReplacementLists == UNION {[1..n -> ReplacementTexts] : n \in 0..MaxTexts}

InitSCF ==
    /\ scfFile \in Units
    /\ jsonFile = NoFile
    /\ txtFile = NoFile
    /\ parseCall = NoCall
    /\ rebuildCall = NoCall
    /\ archiveFile = Zeros(0)
    /\ indexFile = << >>
    /\ unitDir = EmptyMap
    /\ outArchive = NoFile
    /\ outIndex = NoFile
    /\ unpackCall = NoCall
    /\ repackCall = NoCall
    /\ touched = {}
    /\ pftHeader = << >>
    /\ pftEntries = << >>
    /\ readCall = NoCall
    /\ writeCall = NoCall
    /\ verifyCall = NoCall

\* SCFParserV2.parse(filepath)
Parse ==
    /\ ~parseCall.called
    /\ parseCall' = [called |-> TRUE, parsed_data |-> ParseUnit(scfFile)]
    /\ UNCHANGED <<scfFile, jsonFile, txtFile, rebuildCall>>
    /\ UNCHANGED archiveVars
    /\ UNCHANGED pftVars
    /\ UNCHANGED verifyCall

\* SCFParserV2.rebuild(parsed_data, new_texts) on the container parse returned;
\* a run makes one rebuild call, direct or from files
Rebuild(new_texts) ==
    /\ parseCall.called
    /\ ~rebuildCall.called
    /\ rebuildCall' = [called |-> TRUE, from_files |-> FALSE, with_txt |-> FALSE,
                       parsed_data |-> parseCall.parsed_data,
                       new_texts |-> new_texts,
                       returned |-> RebuildUnit(parseCall.parsed_data, new_texts)]
    /\ parseCall' = [parseCall EXCEPT
                         !.parsed_data = ContainerAfterRebuild(parseCall.parsed_data, new_texts)]
    /\ UNCHANGED <<scfFile, jsonFile, txtFile>>
    /\ UNCHANGED archiveVars
    /\ UNCHANGED pftVars
    /\ UNCHANGED verifyCall

\* SCFParserV2.save_for_translation(filepath, output_dir)
SaveForTranslation ==
    /\ jsonFile = NoFile
    /\ \E parsed \in {ParseUnit(scfFile)} :
          /\ jsonFile' = JsonDocument(parsed)
          /\ txtFile' = [chars |-> TxtImage(ExtractTexts(parsed))]
    /\ UNCHANGED <<scfFile, parseCall, rebuildCall>>
    /\ UNCHANGED archiveVars
    /\ UNCHANGED pftVars
    /\ UNCHANGED verifyCall

\* SCFParserV2.rebuild_from_files(json_path, txt_path); with_txt is FALSE
\* when txt_path is left out
RebuildFromFiles(with_txt) ==
    /\ jsonFile # NoFile
    /\ ~rebuildCall.called
    /\ \E new_texts \in {IF with_txt /\ txtFile # NoFile
                         THEN TextList(ReadTxtLines(txtFile.chars))
                         ELSE NoTexts} :
          rebuildCall' = [called |-> TRUE, from_files |-> TRUE, with_txt |-> with_txt,
                          parsed_data |-> jsonFile,
                          new_texts |-> new_texts,
                          returned |-> RebuildUnit(jsonFile, new_texts)]
    /\ UNCHANGED <<scfFile, jsonFile, txtFile, parseCall>>
    /\ UNCHANGED archiveVars
    /\ UNCHANGED pftVars
    /\ UNCHANGED verifyCall

NextSCF ==
    \/ Parse
    \/ \E new_texts \in {NoTexts} \cup {TextList(l) : l \in ReplacementLists} : Rebuild(new_texts)
    \/ SaveForTranslation
    \/ \E with_txt \in BOOLEAN : RebuildFromFiles(with_txt)

SpecSCF == InitSCF /\ [][NextSCF]_vars

-----------------------------------------------------------------------------
\* Two rebuild calls on one container (SpecRebuildSeq)

\* unit files with no, one and two text segments, with runs that are no text
\* between them, and one whose last run has no terminator
SeqUnits ==
    {<< 65, 0 >>,
     << 130, 160, 0 >>,
     << 130, 160, 0, 130, 160, 0 >>,
     << 130, 160, 0, 65, 0, 130, 160, 0 >>,
     << 65, 0, 130, 160, 160, 0, 130, 160, 65 >>}

InitRebuildSeq ==
    /\ scfFile \in SeqUnits
    /\ jsonFile = NoFile
    /\ txtFile = NoFile
    /\ parseCall = NoCall
    /\ rebuildCall = NoCall
    /\ archiveFile = Zeros(0)
    /\ indexFile = << >>
    /\ unitDir = EmptyMap
    /\ outArchive = NoFile
    /\ outIndex = NoFile
    /\ unpackCall = NoCall
    /\ repackCall = NoCall
    /\ touched = {}
    /\ pftHeader = << >>
    /\ pftEntries = << >>
    /\ readCall = NoCall
    /\ writeCall = NoCall
    /\ verifyCall = NoCall

\* a second SCFParserV2.rebuild(parsed_data, new_texts) call on the container
\* the first call was given; the record of the first call is kept in `earlier`
RebuildAgain(new_texts) ==
    /\ parseCall.called
    /\ rebuildCall.called
    /\ "earlier" \notin DOMAIN rebuildCall
    /\ rebuildCall' = [called |-> TRUE, from_files |-> FALSE, with_txt |-> FALSE,
                       parsed_data |-> parseCall.parsed_data,
                       new_texts |-> new_texts,
                       returned |-> RebuildUnit(parseCall.parsed_data, new_texts),
                       earlier |-> rebuildCall]
    /\ parseCall' = [parseCall EXCEPT
                         !.parsed_data = ContainerAfterRebuild(parseCall.parsed_data, new_texts)]
    /\ UNCHANGED <<scfFile, jsonFile, txtFile>>
    /\ UNCHANGED archiveVars
    /\ UNCHANGED pftVars
    /\ UNCHANGED verifyCall

NextRebuildSeq ==
    \/ Parse
    \/ \E new_texts \in {NoTexts} \cup {TextList(l) : l \in ReplacementLists} : Rebuild(new_texts)
    \/ \E new_texts \in {NoTexts} \cup {TextList(l) : l \in ReplacementLists} :
           RebuildAgain(new_texts)

SpecRebuildSeq == InitRebuildSeq /\ [][NextRebuildSeq]_vars

-----------------------------------------------------------------------------
\* The index table codec as a state machine (SpecPFT): one PFTParser, the
\* file at its path (indexFile) and the file write puts out (outIndex)

MaxRecords == 3
MaxWriteEntries == 2

\* 16-byte records an index file may hold: plain names, a name of eight
\* characters, a name with a null byte inside, a name with a byte above 0x7F
\* (dropped by the decoder), numbers of more than one byte, and two records
\* whose name decodes to the empty string
FileRecords ==
    {<< 65, 0, 0, 0, 0, 0, 0, 0,        0, 0, 0, 0,   1, 0, 0, 0 >>,
     << 65, 66, 67, 68, 69, 70, 71, 72, 5, 0, 0, 0,   50, 0, 0, 0 >>,
     << 65, 0, 66, 0, 0, 0, 0, 0,       2, 1, 0, 0,   3, 0, 1, 0 >>,
     << 193, 66, 0, 0, 0, 0, 0, 0,      0, 0, 0, 0,   1, 0, 0, 0 >>,
     << 66, 0, 0, 0, 0, 0, 0, 0,        1, 0, 0, 0,   0, 0, 0, 1 >>,
     << 0, 0, 0, 0, 0, 0, 0, 0,         7, 0, 0, 0,   9, 0, 0, 0 >>,
     << 200, 0, 0, 0, 0, 0, 0, 0,       0, 0, 0, 0,   1, 0, 0, 0 >>}

RECURSIVE RecordRuns(_)
\* the concatenations of up to n records
RecordRuns(n) ==
    IF n = 0 THEN {<< >>}
    ELSE LET shorter == RecordRuns(n - 1)
         IN shorter \cup {u \o r : u \in shorter, r \in FileRecords}

\* the header: the usual magic, a count field (9, with non-zero upper bytes)
\* that is not the number of records, and non-zero bytes after it
FileHeaders ==
    {<< 16, 0, 0, 8, 9, 1, 1, 1, 1, 0, 2, 0, 3, 4, 5, 6 >>}

\* what follows the last whole record: nothing, or three bytes of a record
FileTails == {<< >>, << 65, 0, 0 >>}

\* files shorter than a header
ShortFiles ==
    {<< >>,
     << 16, 0, 0, 8, 9 >>,
     << 16, 0, 0, 8, 9, 1, 1, 1, 1, 0 >>,
     << 16, 0, 0, 8, 9, 1, 1, 1, 1, 0, 2, 0, 3, 4, 5 >>}

IndexFiles ==
    ShortFiles \cup {h \o u \o t : h \in FileHeaders, u \in RecordRuns(MaxRecords), t \in FileTails}

\* entries a caller may give to write: a short name, a name of nine
\* characters, and numbers of more than one byte
WriteEntryChoices ==
    {[name |-> << 65 >>, idx |-> 0, size |-> 1],
     [name |-> << 65, 66, 67, 68, 69, 70, 71, 72, 73 >>, idx |-> 5, size |-> 50],
     [name |-> << 66, 67 >>, idx |-> 258, size |-> 65539]}

WriteEntryLists == UNION {[1..n -> WriteEntryChoices] : n \in 0..MaxWriteEntries}

InitPFT ==
    /\ indexFile \in IndexFiles
    /\ outIndex = NoFile
    /\ pftHeader = << >>
    /\ pftEntries = << >>
    /\ readCall = NoCall
    /\ writeCall = NoCall
    /\ archiveFile = Zeros(0)
    /\ unitDir = EmptyMap
    /\ outArchive = NoFile
    /\ unpackCall = NoCall
    /\ repackCall = NoCall
    /\ touched = {}
    /\ scfFile = << >>
    /\ jsonFile = NoFile
    /\ txtFile = NoFile
    /\ parseCall = NoCall
    /\ rebuildCall = NoCall
    /\ verifyCall = NoCall

\* PFTParser.read()
Read ==
    /\ ~readCall.called
    /\ \E r \in {PFTRead(indexFile)} :
          /\ pftHeader' = r.header
          /\ pftEntries' = IF r.ok THEN r.entries ELSE pftEntries
          /\ readCall' = IF r.ok
                         THEN [called |-> TRUE, ok |-> TRUE, returned |-> r.entries]
                         ELSE [called |-> TRUE, ok |-> FALSE]
    /\ UNCHANGED <<indexFile, outIndex, writeCall>>
    /\ UNCHANGED <<archiveFile, unitDir, outArchive, unpackCall, repackCall, touched>>
    /\ UNCHANGED scfVars
    /\ UNCHANGED verifyCall

\* PFTParser.write(output_path, entries).  The struct.error of a failed read
\* is caught by no caller before main, which ends the run (sdk_tools.py
\* 276-289), so no write follows a failed read
Write(entries) ==
    /\ ~writeCall.called
    /\ readCall.called => readCall.ok
    /\ \E output \in {PFTWrite(pftHeader, entries)} :
          /\ outIndex' = output
          /\ writeCall' = [called |-> TRUE,
                           after_read |-> readCall.called,
                           header |-> pftHeader,
                           entries |-> entries,
                           output |-> output]
    /\ UNCHANGED <<indexFile, pftHeader, pftEntries, readCall>>
    /\ UNCHANGED <<archiveFile, unitDir, outArchive, unpackCall, repackCall, touched>>
    /\ UNCHANGED scfVars
    /\ UNCHANGED verifyCall

NextPFT ==
    \/ Read
    \/ \E entries \in WriteEntryLists \cup {pftEntries} : Write(entries)

SpecPFT == InitPFT /\ [][NextPFT]_vars

-----------------------------------------------------------------------------
\* Reading what PFTParser.write wrote (SpecPFTRoundTrip)

\* index files of a header and at most one record
RoundTripFiles == {h \o u : h \in FileHeaders, u \in RecordRuns(1)}

\* entries a caller may give to write: names of one, two and eight
\* characters, a name with a space at its end, a name of nine characters,
\* and numbers of one to four bytes
RoundTripEntryChoices ==
    WriteEntryChoices \cup
    {[name |-> << 83, 67, 78, 48, 48, 48, 48, 49 >>, idx |-> 16909060, size |-> 2048],
     [name |-> << 65, 32 >>, idx |-> 1, size |-> 0]}

RoundTripEntryLists == UNION {[1..n -> RoundTripEntryChoices] : n \in 0..MaxWriteEntries}

InitPFTRoundTrip ==
    /\ indexFile \in RoundTripFiles
    /\ outIndex = NoFile
    /\ pftHeader = << >>
    /\ pftEntries = << >>
    /\ readCall = NoCall
    /\ writeCall = NoCall
    /\ archiveFile = Zeros(0)
    /\ unitDir = EmptyMap
    /\ outArchive = NoFile
    /\ unpackCall = NoCall
    /\ repackCall = NoCall
    /\ touched = {}
    /\ scfFile = << >>
    /\ jsonFile = NoFile
    /\ txtFile = NoFile
    /\ parseCall = NoCall
    /\ rebuildCall = NoCall
    /\ verifyCall = NoCall

\* PFTParser(output_path).read(): a new parser reads the file that write
\* wrote; pftHeader and pftEntries become the fields of the new parser
ReadOutput ==
    /\ writeCall.called
    /\ "of_output" \notin DOMAIN readCall
    /\ \E r \in {PFTRead(outIndex)} :
          /\ pftHeader' = r.header
          /\ pftEntries' = IF r.ok THEN r.entries ELSE << >>
          /\ readCall' = IF r.ok
                         THEN [called |-> TRUE, ok |-> TRUE, returned |-> r.entries,
                               of_output |-> TRUE]
                         ELSE [called |-> TRUE, ok |-> FALSE, of_output |-> TRUE]
    /\ UNCHANGED <<indexFile, outIndex, writeCall>>
    /\ UNCHANGED <<archiveFile, unitDir, outArchive, unpackCall, repackCall, touched>>
    /\ UNCHANGED scfVars
    /\ UNCHANGED verifyCall

NextPFTRoundTrip ==
    \/ Read
    \/ \E entries \in RoundTripEntryLists \cup {pftEntries} : Write(entries)
    \/ ReadOutput

SpecPFTRoundTrip == InitPFTRoundTrip /\ [][NextPFTRoundTrip]_vars

-----------------------------------------------------------------------------
\* The end-to-end scenario of the archive layer (SpecScenario): an index with
\* the entries ("SCN002", 0, 100) and ("SCN003", 5, 50) over an archive of six
\* blocks that is zero outside the two spans

SCN002 == << 83, 67, 78, 48, 48, 50 >>
SCN003 == << 83, 67, 78, 48, 48, 51 >>

ScenarioEntries ==
    << [name |-> SCN002, idx |-> 0, size |-> 100],
       [name |-> SCN003, idx |-> 5, size |-> 50] >>

\* the positions of the archive that may hold a non-zero byte: the first, a
\* middle and the last byte of the first span, the first and the last byte of
\* the second
ScenarioPositions == {0, 50, 99, 10240, 10289}
ScenarioBytes == {0, 17, 255}

ScenarioArchives ==
    {[len |-> 6 * BLOCK_SIZE,
      nz  |-> [p \in {q \in ScenarioPositions : f[q] # 0} |-> f[p]]] :
        f \in [ScenarioPositions -> ScenarioBytes]}

InitScenario ==
    /\ archiveFile \in ScenarioArchives
    /\ indexFile = IndexImage(ScenarioEntries)
    /\ unitDir = EmptyMap
    /\ outArchive = NoFile
    /\ outIndex = NoFile
    /\ unpackCall = NoCall
    /\ repackCall = NoCall
    /\ touched = {}
    /\ scfFile = << >>
    /\ jsonFile = NoFile
    /\ txtFile = NoFile
    /\ parseCall = NoCall
    /\ rebuildCall = NoCall
    /\ pftHeader = << >>
    /\ pftEntries = << >>
    /\ readCall = NoCall
    /\ writeCall = NoCall
    /\ verifyCall = NoCall

NextScenario ==
    \/ Unpack
    \/ \E with_outputs \in BOOLEAN : Repack(with_outputs)

SpecScenario == InitScenario /\ [][NextScenario]_vars

-----------------------------------------------------------------------------
\* Properties of the archive layer.  The arithmetic of the claims is written
\* out here (a block is 2048 bytes) and does not use the operators above.

Unpacked == unpackCall.called /\ unpackCall.ok
Repacked == repackCall.called /\ repackCall.ok

\* first byte and first byte after the span of an index entry
SpanLo(e) == e.idx * 2048
SpanHi(e) == e.idx * 2048 + e.size
InSpan(p, e) == SpanLo(e) <= p /\ p < SpanHi(e)
EntryInRange(e, archive) == SpanHi(e) <= archive.len

\* the bytes [lo, lo + size) of a buffer, as a buffer
SpanBytes(b, lo, size) ==
    [len |-> size,
     nz  |-> [q \in {p - lo : p \in {r \in DOMAIN b.nz : lo <= r /\ r < lo + size}} |->
                 b.nz[q + lo]]]

MaxIdx(entries) ==
    CHOOSE m \in {entries[i].idx : i \in 1..Len(entries)} :
        \A i \in 1..Len(entries) : entries[i].idx <= m
MaxHi(entries) ==
    CHOOSE m \in {SpanHi(entries[i]) : i \in 1..Len(entries)} :
        \A i \in 1..Len(entries) : SpanHi(entries[i]) <= m

DistinctNames(entries) ==
    \A i, j \in 1..Len(entries) : i # j => entries[i].name # entries[j].name

\* unpack ran, no unit file was changed since, and repack ran on the result
RoundTrip == Unpacked /\ Repacked /\ touched = {}

\* C1 as stated: for every archive and index whose entries are all in range,
\* unpack followed by repack of the unmodified unit files produces an archive
\* equal byte for byte to the original archive.
C1_RoundTripAnyArchive ==
    (RoundTrip /\ \A i \in 1..Len(unpackCall.entries) :
                      EntryInRange(unpackCall.entries[i], unpackCall.archive_data))
        => repackCall.archive_data = unpackCall.archive_data

\* an archive as the packer lays it out for an index: as long as the blocks
\* up to the highest block number (or as the furthest entry end, if that is
\* beyond), zero outside the spans of the entries, one name per entry
PackerLayout(archive, entries) ==
    /\ entries # << >>
    /\ DistinctNames(entries)
    /\ archive.len = Max((MaxIdx(entries) + 1) * 2048, MaxHi(entries))
    /\ \A p \in DOMAIN archive.nz : \E i \in 1..Len(entries) : InSpan(p, entries[i])

\* C1 amended: when the index names each entry differently, the archive is
\* zero outside the entries' spans and its length is the larger of
\* (max blockIndex + 1) * 2048 and the furthest entry end, unpack followed by
\* repack of the unmodified unit files reproduces the archive byte for byte.
C1_RoundTripPackerLayout ==
    (RoundTrip /\ PackerLayout(unpackCall.archive_data, unpackCall.entries))
        => repackCall.archive_data = unpackCall.archive_data

C1_Witness ==
    /\ RoundTrip
    /\ PackerLayout(unpackCall.archive_data, unpackCall.entries)
    /\ Len(unpackCall.entries) = 2
    /\ Cardinality(DOMAIN unpackCall.archive_data.nz) >= 2
    /\ repackCall.archive_data = unpackCall.archive_data

\* C4: in the archive produced by repack every byte outside the span
\* [blockIndex*2048, blockIndex*2048 + newSize) of every entry of the new
\* index is zero, also with missing unit files and overlapping spans.
C4_SparseGapsZero ==
    Repacked =>
        \A p \in DOMAIN repackCall.archive_data.nz :
            repackCall.archive_data.nz[p] # 0 =>
                \E i \in 1..Len(repackCall.new_entries) :
                    InSpan(p, repackCall.new_entries[i])

\* a repack with a missing unit file whose block is reached by the span of a
\* kept entry (an overlap), with non-zero bytes on both sides of the block
\* boundary
C4_Witness ==
    /\ Repacked
    /\ Len(repackCall.original_entries) = 2
    /\ Len(repackCall.new_entries) = 1
    /\ repackCall.original_entries[2].name \notin DOMAIN repackCall.input_dir
    /\ InSpan(SpanLo(repackCall.original_entries[2]), repackCall.new_entries[1])
    /\ SpanLo(repackCall.new_entries[1]) < SpanLo(repackCall.original_entries[2])
    /\ Cardinality(DOMAIN repackCall.archive_data.nz) >= 2

RECURSIVE KeptEntries(_, _)
\* the original entries whose unit file exists, each with the length of its
\* unit file as size
KeptEntries(entries, dir) ==
    IF entries = << >> THEN << >>
    ELSE LET e == Head(entries)
         IN (IF e.name \in DOMAIN dir
             THEN << [name |-> e.name, idx |-> e.idx, size |-> dir[e.name].len] >>
             ELSE << >>) \o KeptEntries(Tail(entries), dir)

\* C5: the index written by repack is the original entry sequence without the
\* entries of missing unit files, in the original order, each kept entry with
\* its original name and blockIndex and the length of its unit file as byteSize.
C5_IndexKeepsBlocksAndOrder ==
    Repacked =>
        /\ repackCall.new_entries =
               KeptEntries(repackCall.original_entries, repackCall.input_dir)
        /\ PFTRead(repackCall.index_bytes).entries = repackCall.new_entries

\* a repack that kept two entries whose block numbers are not ascending and
\* gave one of them a new size
C5_Witness ==
    /\ Repacked
    /\ Len(repackCall.original_entries) = 2
    /\ Len(repackCall.new_entries) = 2
    /\ repackCall.new_entries[1].idx > repackCall.new_entries[2].idx
    /\ repackCall.new_entries[1].size # repackCall.original_entries[1].size

\* C6 as stated: the archive produced by repack is exactly
\* (max blockIndex + 1) * 2048 bytes long, whatever the sizes of the unit files.
C6_ArchiveLengthIsBlockCount ==
    Repacked =>
        repackCall.archive_data.len = (MaxIdx(repackCall.original_entries) + 1) * 2048

RECURSIVE InRangeEntries(_, _)
\* the entries whose span ends inside the archive, in index order
InRangeEntries(entries, archive) ==
    IF entries = << >> THEN << >>
    ELSE (IF EntryInRange(Head(entries), archive) THEN << Head(entries) >> ELSE << >>)
             \o InRangeEntries(Tail(entries), archive)

\* C7: for every index entry with blockIndex*2048 + byteSize <= archive
\* length, unpack writes a unit file of that name whose content is the archive
\* bytes [blockIndex*2048, blockIndex*2048 + byteSize) (the file keeps that
\* content unless a later in-range entry of the same name rewrites it), and
\* unpack does not change the archive.
C7_UnpackPayloadPlacement ==
    Unpacked =>
        LET es == unpackCall.entries
            ar == unpackCall.archive_data
        IN /\ \A i \in 1..Len(es) :
                  EntryInRange(es[i], ar) =>
                      /\ \E k \in 1..Len(unpackCall.writes) :
                             /\ unpackCall.writes[k].name = es[i].name
                             /\ unpackCall.writes[k].data = SpanBytes(ar, SpanLo(es[i]), es[i].size)
                      /\ (/\ touched = {}
                          /\ \A j \in (i + 1)..Len(es) :
                                 es[j].name = es[i].name => ~EntryInRange(es[j], ar))
                             => /\ es[i].name \in DOMAIN unitDir
                                /\ unitDir[es[i].name] = SpanBytes(ar, SpanLo(es[i]), es[i].size)
           /\ (~repackCall.called => archiveFile = ar)

\* an unpack that read a unit with a non-zero byte from block 1 (byte 2048)
C7_Witness ==
    /\ Unpacked
    /\ touched = {}
    /\ 2048 \in DOMAIN unpackCall.archive_data.nz
    /\ \E i \in 1..Len(unpackCall.entries) :
           /\ unpackCall.entries[i].idx = 1
           /\ unpackCall.entries[i].name \in DOMAIN unitDir
           /\ unitDir[unpackCall.entries[i].name].len = unpackCall.entries[i].size
           /\ 0 \in DOMAIN unitDir[unpackCall.entries[i].name].nz
           /\ unitDir[unpackCall.entries[i].name].nz[0] = unpackCall.archive_data.nz[2048]

CountField(index_bytes) ==
    index_bytes[5] + 256 * index_bytes[6] + 65536 * index_bytes[7] + 16777216 * index_bytes[8]

InBlock(p, e) == e.idx * 2048 <= p /\ p < (e.idx + 1) * 2048

Missing(e) == e.name \notin DOMAIN repackCall.input_dir

\* C9 as stated: when a unit file is absent, repack goes on, the entry is not
\* in the new index, its block of the new archive is zero, the other entries
\* are packed, and the count field of the new index is the number packed.
C9_MissingUnitBlockZero ==
    Repacked =>
        LET orig == repackCall.original_entries
        IN /\ \A i \in 1..Len(orig) :
                  Missing(orig[i]) =>
                      \A p \in DOMAIN repackCall.archive_data.nz : ~InBlock(p, orig[i])
           /\ repackCall.new_entries = KeptEntries(orig, repackCall.input_dir)
           /\ CountField(repackCall.index_bytes) = Len(repackCall.new_entries)

\* C9 amended: when a unit file is absent, repack goes on, the entry is not in
\* the new index and nothing is written for it (every non-zero byte of its
\* block lies in the span of an entry that was packed), the other entries
\* are packed, and the count field of the new index is the number packed.
C9_MissingUnitDropped ==
    Repacked =>
        LET orig == repackCall.original_entries
            new  == repackCall.new_entries
        IN /\ \A i \in 1..Len(orig) :
                  Missing(orig[i]) =>
                      /\ \A k \in 1..Len(new) : new[k].name # orig[i].name
                      /\ \A p \in DOMAIN repackCall.archive_data.nz :
                             InBlock(p, orig[i]) => \E k \in 1..Len(new) : InSpan(p, new[k])
           /\ \A i \in 1..Len(orig) :
                  ~Missing(orig[i]) => \E k \in 1..Len(new) :
                      /\ new[k].name = orig[i].name
                      /\ new[k].idx = orig[i].idx
           /\ Len(new) = Cardinality({i \in 1..Len(orig) : ~Missing(orig[i])})
           /\ CountField(repackCall.index_bytes) = Len(new)
           /\ repackCall.returned = Len(new)

\* a repack with the first unit file absent and the second packed
C9_Witness ==
    /\ Repacked
    /\ Len(repackCall.original_entries) = 2
    /\ Missing(repackCall.original_entries[1])
    /\ Len(repackCall.new_entries) = 1
    /\ repackCall.new_entries[1].name = repackCall.original_entries[2].name
    /\ CountField(repackCall.index_bytes) = 1
    /\ DOMAIN repackCall.archive_data.nz # {}

-----------------------------------------------------------------------------
\* Properties of the SCF layer

Parsed == parseCall.called
Rebuilt == rebuildCall.called

\* C2: rebuild of a parsed unit with no replacement texts (None or an empty
\* list) returns exactly the original bytes of the unit.
C2_RebuildIdentity ==
    (Rebuilt /\ (rebuildCall.new_texts.none \/ rebuildCall.new_texts.list = << >>))
        => rebuildCall.returned = scfFile

\* a rebuild with an empty list of a unit that has a text segment and ends in
\* a run with no terminator
C2_Witness ==
    /\ Rebuilt
    /\ ~rebuildCall.from_files
    /\ ~rebuildCall.new_texts.none
    /\ rebuildCall.new_texts.list = << >>
    /\ rebuildCall.parsed_data.text_segments # << >>
    /\ Len(scfFile) > 0
    /\ scfFile[Len(scfFile)] # 0
    /\ rebuildCall.returned = scfFile

\* C3 as stated: extracting a unit (save_for_translation) and rebuilding it
\* from the JSON with the unmodified TXT (rebuild_from_files) gives the bytes
\* of the unit, whatever the unit.
C3_RebuildFromUntouchedFiles ==
    (Rebuilt /\ rebuildCall.from_files /\ rebuildCall.with_txt)
        => rebuildCall.returned = scfFile

\* C10: the segments returned by parse are in strictly ascending offset
\* order, each lies inside the file (offset + length <= size), and no two
\* overlap: segments[i].offset + segments[i].length <= segments[j].offset
\* for i < j.
C10_SegmentsOrderedDisjoint ==
    Parsed =>
        LET segs == parseCall.parsed_data.text_segments
        IN /\ parseCall.parsed_data.size = Len(scfFile)
           /\ \A i \in 1..Len(segs) :
                  /\ segs[i].offset >= 0
                  /\ segs[i].length >= 1
                  /\ segs[i].offset + segs[i].length <= Len(scfFile)
           /\ \A i, j \in 1..Len(segs) :
                  i < j => /\ segs[i].offset < segs[j].offset
                           /\ segs[i].offset + segs[i].length <= segs[j].offset

\* a parse that found two adjacent segments, the second reaching the end of
\* the file without a terminator
C10_Witness ==
    /\ Parsed
    /\ Len(parseCall.parsed_data.text_segments) = 2
    /\ parseCall.parsed_data.text_segments[1].offset
           + parseCall.parsed_data.text_segments[1].length
       = parseCall.parsed_data.text_segments[2].offset
    /\ parseCall.parsed_data.text_segments[2].offset
           + parseCall.parsed_data.text_segments[2].length
       = Len(scfFile)
    /\ scfFile[Len(scfFile)] # 0

\* the rebuild call was given a list of texts (not None)
RebuiltWithList == Rebuilt /\ ~rebuildCall.new_texts.none

\* every character of the text has bytes in the legacy charset
Encodable(text) == \A j \in 1..Len(text) : SjisCharBytes(text[j]) # << >>

\* the bytes [offset, offset + length) of the original data
SegmentSpan(data, seg) == PySlice(data, seg.offset, seg.offset + seg.length)

RECURSIVE Assemble(_, _, _, _, _)
\* the original data read from position pos on, with the span of each segment
\* from the i-th on replaced by pieces[i]; the bytes between spans are copied
Assemble(data, segs, pieces, i, pos) ==
    IF i > Len(segs) THEN PySlice(data, pos, Len(data))
    ELSE PySlice(data, pos, segs[i].offset) \o pieces[i]
             \o Assemble(data, segs, pieces, i + 1, segs[i].offset + segs[i].length)

\* text i followed by one null byte for each of the first min(N, M) segments,
\* the original bytes for the others
PiecesAsGiven(data, segs, texts) ==
    [i \in 1..Len(segs) |->
        IF i <= Len(texts) THEN SjisConcat(texts[i]) \o << 0 >> ELSE SegmentSpan(data, segs[i])]

\* as PiecesAsGiven, but a segment whose text is not encodable keeps its bytes
PiecesKeepUnencodable(data, segs, texts) ==
    [i \in 1..Len(segs) |->
        IF i <= Len(texts) /\ Encodable(texts[i])
        THEN SjisConcat(texts[i]) \o << 0 >>
        ELSE SegmentSpan(data, segs[i])]

\* C11 as stated: with N segments and M # N texts rebuild returns normally;
\* exactly the first min(N, M) segments are replaced by their texts, every
\* other segment keeps its bytes and the surplus texts are ignored.
C11_CountMismatchPrefixReplaced ==
    (RebuiltWithList
        /\ Len(rebuildCall.new_texts.list) # Len(rebuildCall.parsed_data.text_segments))
    => rebuildCall.returned =
           Assemble(rebuildCall.parsed_data.original_data,
                    rebuildCall.parsed_data.text_segments,
                    PiecesAsGiven(rebuildCall.parsed_data.original_data,
                                  rebuildCall.parsed_data.text_segments,
                                  rebuildCall.new_texts.list), 1, 0)

\* C11 amended: with N segments and M # N texts rebuild returns normally;
\* each of the first min(N, M) segments whose text is encodable is replaced by
\* that text and a terminator, a segment among them whose text is not
\* encodable keeps its bytes, every remaining segment keeps its bytes, and the
\* surplus texts are ignored.
C11_CountMismatchEncodablePrefix ==
    (RebuiltWithList
        /\ Len(rebuildCall.new_texts.list) # Len(rebuildCall.parsed_data.text_segments))
    => rebuildCall.returned =
           Assemble(rebuildCall.parsed_data.original_data,
                    rebuildCall.parsed_data.text_segments,
                    PiecesKeepUnencodable(rebuildCall.parsed_data.original_data,
                                          rebuildCall.parsed_data.text_segments,
                                          rebuildCall.new_texts.list), 1, 0)

\* a rebuild of a unit with two segments given one encodable text: the first
\* segment is replaced, the second is still there
C11_Witness ==
    /\ RebuiltWithList
    /\ Len(rebuildCall.parsed_data.text_segments) = 2
    /\ Len(rebuildCall.new_texts.list) = 1
    /\ rebuildCall.new_texts.list[1] = << 65 >>
    /\ rebuildCall.returned # rebuildCall.parsed_data.original_data
    /\ SubSeq(rebuildCall.returned, 1, 2) = << 65, 0 >>

RECURSIVE OutOffset(_, _, _)
\* where the span of segment i starts in the output: its offset moved by the
\* length changes of the segments before it
OutOffset(segs, pieces, i) ==
    IF i = 1 THEN segs[1].offset
    ELSE OutOffset(segs, pieces, i - 1) + Len(pieces[i - 1])
             + (segs[i].offset - (segs[i - 1].offset + segs[i - 1].length))

\* C12: if a replacement text cannot be encoded in the legacy charset, rebuild
\* returns normally, that segment's original bytes (payload and terminator)
\* are in the output at the segment's place, and every other replacement among
\* the first min(N, M) is applied at its place.
C12_UnencodableIsolated ==
    RebuiltWithList =>
        LET data   == rebuildCall.parsed_data.original_data
            segs   == rebuildCall.parsed_data.text_segments
            texts  == rebuildCall.new_texts.list
            pieces == PiecesKeepUnencodable(data, segs, texts)
            k      == Min(Len(segs), Len(texts))
        IN (\E u \in 1..k : ~Encodable(texts[u])) =>
               \A i \in 1..k :
                   LET at == OutOffset(segs, pieces, i)
                   IN IF Encodable(texts[i])
                      THEN PySlice(rebuildCall.returned, at,
                                   at + Len(SjisConcat(texts[i])) + 1)
                               = SjisConcat(texts[i]) \o << 0 >>
                      ELSE PySlice(rebuildCall.returned, at, at + segs[i].length)
                               = PySlice(scfFile, segs[i].offset,
                                         segs[i].offset + segs[i].length)

\* a rebuild of a unit with two segments in which the first text is the euro
\* sign and the second is 'A': the first segment is kept, the second replaced
C12_Witness ==
    /\ RebuiltWithList
    /\ scfFile = << 130, 160, 0, 130, 160, 0 >>
    /\ rebuildCall.new_texts.list = << << 8364 >>, << 65 >> >>
    /\ rebuildCall.returned = << 130, 160, 0, 65, 0 >>

-----------------------------------------------------------------------------
\* Properties of the index table codec

\* the value of four bytes read as a little-endian unsigned integer
U32At(bytes, p) ==
    bytes[p + 1] + 256 * bytes[p + 2] + 65536 * bytes[p + 3] + 16777216 * bytes[p + 4]

\* C13: when write is called after a read, the first 16 bytes of the output
\* are the header that was read in every byte except bytes 4..7, which hold
\* the number of entries written as a little-endian u32.
C13_WritePreservesHeader ==
    (writeCall.called /\ writeCall.after_read) =>
        /\ Len(outIndex) >= 16
        /\ \A p \in 0..15 : (p < 4 \/ p > 7) => outIndex[p + 1] = indexFile[p + 1]
        /\ \A p \in 4..7 : outIndex[p + 1] \in 0..255
        /\ U32At(outIndex, 4) = Len(writeCall.entries)

\* a write after a read of two entries given to it, over a header whose count
\* field held another number in all four bytes
C13_Witness ==
    /\ writeCall.called
    /\ writeCall.after_read
    /\ Len(writeCall.entries) = 2
    /\ SubSeq(indexFile, 5, 8) = << 9, 1, 1, 1 >>
    /\ SubSeq(outIndex, 5, 8) = << 2, 0, 0, 0 >>
    /\ SubSeq(outIndex, 9, 16) = << 1, 0, 2, 0, 3, 4, 5, 6 >>

\* the number of whole 16-byte records after the header, and the k-th of them
WholeRecords(data) == (Len(data) - 16) \div 16
RecordAt(data, k) == PySlice(data, 16 * k, 16 * k + 16)

\* the name a record's first 8 bytes decode to: the bytes up to 0x7F, without
\* the null bytes at the end
RecordName(rec) ==
    LET kept == SelectSeq(SubSeq(rec, 1, 8), LAMBDA b : b <= 127)
        n == CHOOSE n \in 0..Len(kept) :
                 /\ n = 0 \/ kept[n] # 0
                 /\ \A m \in (n + 1)..Len(kept) : kept[m] = 0
    IN SubSeq(kept, 1, n)

\* the number of whole records before the first one with an empty name
RecordsBeforeStop(data) ==
    LET stops == {k \in 1..WholeRecords(data) : RecordName(RecordAt(data, k)) = << >>}
    IN IF stops = {} THEN WholeRecords(data)
       ELSE (CHOOSE k \in stops : \A j \in stops : k <= j) - 1

\* C14: read keeps the first 16 bytes as the header and returns, in file
\* order, one (name, blockIndex, byteSize) tuple per 16-byte record from byte
\* 16 on, up to the first record whose name decodes to the empty string or to
\* the point where fewer than 16 bytes remain; nothing after that is returned.
C14_ReadScan ==
    (readCall.called /\ Len(indexFile) >= 16) =>
        /\ readCall.ok
        /\ pftHeader = SubSeq(indexFile, 1, 16)
        /\ pftEntries = readCall.returned
        /\ Len(readCall.returned) = RecordsBeforeStop(indexFile)
        /\ \A k \in 1..Len(readCall.returned) :
               LET rec == RecordAt(indexFile, k)
               IN readCall.returned[k] =
                      [name |-> RecordName(rec), idx |-> U32At(rec, 8), size |-> U32At(rec, 12)]

\* a read of a file with a named record, a record with an empty name, another
\* named record and three more bytes: one entry is returned
C14_Witness ==
    /\ readCall.called
    /\ readCall.ok
    /\ Len(indexFile) = 16 + 3 * 16 + 3
    /\ RecordName(RecordAt(indexFile, 1)) = << 65, 0, 66 >>
    /\ RecordName(RecordAt(indexFile, 2)) = << >>
    /\ RecordName(RecordAt(indexFile, 3)) # << >>
    /\ Len(readCall.returned) = 1
    /\ readCall.returned[1] = [name |-> << 65, 0, 66 >>, idx |-> 258, size |-> 65539]

\* C15: read on an input shorter than 16 bytes fails with a format error
\* (struct.error) and returns no entries.
C15_ReadRejectsTruncatedHeader ==
    (readCall.called /\ Len(indexFile) < 16) =>
        /\ ~readCall.ok
        /\ "returned" \notin DOMAIN readCall
        /\ pftEntries = << >>

\* a read of a file of 15 bytes that failed
C15_Witness ==
    /\ readCall.called
    /\ Len(indexFile) = 15
    /\ ~readCall.ok
    /\ pftEntries = << >>

\* the 8 bytes of a name as C20 gives them: the first 8 characters, then null
\* bytes up to 8
PaddedName(name) ==
    [i \in 1..8 |-> IF i <= Len(name) THEN name[i] ELSE 0]

\* the four bytes of v as a little-endian u32
LittleEndian(v) ==
    [i \in 1..4 |-> IF i = 1 THEN v % 256
                    ELSE IF i = 2 THEN (v \div 256) % 256
                    ELSE IF i = 3 THEN (v \div 65536) % 256
                    ELSE (v \div 16777216) % 256]

\* C20: write emits, after the 16-byte header, exactly one 16-byte record per
\* entry in the given order: the name padded with null bytes to 8 bytes (cut
\* to its first 8 bytes if longer), then blockIndex and byteSize as
\* little-endian u32; the output is 16 + 16 * (number of entries) bytes long.
C20_WriteRecordLayout ==
    writeCall.called =>
        /\ Len(outIndex) = 16 + 16 * Len(writeCall.entries)
        /\ \A k \in 1..Len(writeCall.entries) :
               LET e == writeCall.entries[k]
                   rec == SubSeq(outIndex, 16 * k + 1, 16 * k + 16)
               IN /\ SubSeq(rec, 1, 8) = PaddedName(e.name)
                  /\ SubSeq(rec, 9, 12) = LittleEndian(e.idx)
                  /\ SubSeq(rec, 13, 16) = LittleEndian(e.size)

\* a write of two entries, the first with a name of nine characters, the
\* second with numbers of more than one byte
C20_Witness ==
    /\ writeCall.called
    /\ Len(writeCall.entries) = 2
    /\ Len(writeCall.entries[1].name) = 9
    /\ writeCall.entries[2].idx = 258
    /\ Len(outIndex) = 48
    /\ SubSeq(outIndex, 17, 24) = << 65, 66, 67, 68, 69, 70, 71, 72 >>
    /\ SubSeq(outIndex, 33, 48) = << 66, 67, 0, 0, 0, 0, 0, 0, 2, 1, 0, 0, 3, 0, 1, 0 >>

-----------------------------------------------------------------------------
\* Properties of the end-to-end scenario

\* the run started from the scenario: the two entries, an archive of 12288
\* bytes with nothing but zeros outside the two spans
ScenarioRun ==
    /\ Unpacked
    /\ Len(unpackCall.entries) = 2
    /\ unpackCall.entries[1] = [name |-> SCN002, idx |-> 0, size |-> 100]
    /\ unpackCall.entries[2] = [name |-> SCN003, idx |-> 5, size |-> 50]
    /\ unpackCall.archive_data.len = 12288
    /\ \A p \in DOMAIN unpackCall.archive_data.nz :
           (0 <= p /\ p < 100) \/ (10240 <= p /\ p < 10290)

\* C16: in the scenario unpack produces a file of 100 bytes taken from offset
\* 0 and a file of 50 bytes taken from offset 10240, and repacking the
\* unchanged files produces an archive of exactly 12288 bytes equal to the
\* original.
C16_EndToEndScenario ==
    ScenarioRun =>
        /\ unpackCall.extracted = 2
        /\ Len(unpackCall.writes) = 2
        /\ unpackCall.writes[1].name = SCN002
        /\ unpackCall.writes[1].data.len = 100
        /\ unpackCall.writes[1].data = SpanBytes(unpackCall.archive_data, 0, 100)
        /\ unpackCall.writes[2].name = SCN003
        /\ unpackCall.writes[2].data.len = 50
        /\ unpackCall.writes[2].data = SpanBytes(unpackCall.archive_data, 10240, 50)
        /\ Repacked =>
               /\ repackCall.archive_data.len = 12288
               /\ repackCall.archive_data = unpackCall.archive_data
               /\ repackCall.returned = 2

\* the scenario run to its end with non-zero bytes at both ends of both spans
C16_Witness ==
    /\ ScenarioRun
    /\ Repacked
    /\ {0, 99, 10240, 10289} \subseteq DOMAIN unpackCall.archive_data.nz
    /\ unitDir[SCN002].len = 100
    /\ unitDir[SCN003].len = 50
    /\ 49 \in DOMAIN unitDir[SCN003].nz
    /\ repackCall.archive_data = unpackCall.archive_data

RECURSIVE SumSeq(_)
SumSeq(ns) == IF ns = << >> THEN 0 ELSE Head(ns) + SumSeq(Tail(ns))

\* C17: when every replacement text is encodable, rebuild returns the
\* original bytes in which, for each i < min(N, M), the bytes
\* [offset_i, offset_i + length_i) are replaced by encode(texts[i]) and one
\* 0x00 byte, all other bytes being unchanged and in their order; the output
\* is size - sum(length_i) + sum(len(encode(texts[i])) + 1) bytes long.
C17_SpliceCorrect ==
    (RebuiltWithList
        /\ \A i \in 1..Len(rebuildCall.new_texts.list) :
               Encodable(rebuildCall.new_texts.list[i]))
    => LET data  == rebuildCall.parsed_data.original_data
           segs  == rebuildCall.parsed_data.text_segments
           texts == rebuildCall.new_texts.list
           k     == Min(Len(segs), Len(texts))
       IN /\ rebuildCall.returned = Assemble(data, segs, PiecesAsGiven(data, segs, texts), 1, 0)
          /\ Len(rebuildCall.returned) =
                 rebuildCall.parsed_data.size
                     - SumSeq([i \in 1..k |-> segs[i].length])
                     + SumSeq([i \in 1..k |-> Len(SjisConcat(texts[i])) + 1])

\* a rebuild of a unit with a text, a run that is no text and a second text,
\* the first text replaced by a longer one and the second by a shorter one
C17_Witness ==
    /\ RebuiltWithList
    /\ scfFile = << 130, 160, 0, 65, 0, 130, 160, 0 >>
    /\ rebuildCall.new_texts.list = << << 12354, 12354 >>, << 65 >> >>
    /\ rebuildCall.returned = << 130, 160, 130, 160, 0, 65, 0, 65, 0 >>

\* C18 as stated: for every segment returned by parse the bytes at
\* offset .. offset+length-2 of the file are all non-null, the byte at
\* offset+length-1 is the 0x00 terminator, and the decoded text is the
\* decoding of exactly those length-1 bytes, also for a run that reaches the
\* end of the file.
C18_SegmentHasOneTerminator ==
    Parsed =>
        \A i \in 1..Len(parseCall.parsed_data.text_segments) :
            LET seg == parseCall.parsed_data.text_segments[i]
            IN /\ seg.length >= 2
               /\ seg.offset + seg.length <= Len(scfFile)
               /\ \A p \in seg.offset..(seg.offset + seg.length - 2) : scfFile[p + 1] # 0
               /\ scfFile[seg.offset + seg.length] = 0
               /\ seg.text = SjisDecodeIgnore(PySlice(scfFile, seg.offset,
                                                      seg.offset + seg.length - 1))

-----------------------------------------------------------------------------
\* Properties of the archive layer: overflow of a block

\* the unit file repack read for an entry of the new index
FileOf(e) == repackCall.input_dir[e.name]

\* entry a runs past the start of the block of entry b, the next occupied
\* block after a's
OverflowsInto(a, b) ==
    /\ a.name # b.name
    /\ a.idx < b.idx
    /\ a.idx * 2048 + a.size > b.idx * 2048
    /\ \A k \in 1..Len(repackCall.new_entries) :
           ~(a.idx < repackCall.new_entries[k].idx /\ repackCall.new_entries[k].idx < b.idx)

\* the entry of the new index packed last among those whose span covers p
LastCovering(p) ==
    CHOOSE k \in 1..Len(repackCall.new_entries) :
        /\ InSpan(p, repackCall.new_entries[k])
        /\ \A m \in (k + 1)..Len(repackCall.new_entries) :
               ~InSpan(p, repackCall.new_entries[m])

\* the two unit files differ in a byte that both put at the same place
FilesDisagree(a, b) ==
    \E p \in SpanLo(b)..(Min(SpanHi(a), SpanHi(b)) - 1) :
        ByteAt(FileOf(a), p - SpanLo(a)) # ByteAt(FileOf(b), p - SpanLo(b))

\* C19 as stated: when a replacement unit file is longer than the distance
\* from its block to the next occupied block, repack completes, records the
\* full new size in the index, and the next unit's region of the new archive
\* no longer holds the next unit's file bytes (the two files being different
\* where they meet).
C19_OverflowCorruptsNextUnit ==
    Repacked =>
        \A i, j \in 1..Len(repackCall.new_entries) :
            LET a == repackCall.new_entries[i]
                b == repackCall.new_entries[j]
            IN (OverflowsInto(a, b) /\ FilesDisagree(a, b)) =>
                   /\ a.size = FileOf(a).len
                   /\ SpanBytes(repackCall.archive_data, SpanLo(b), b.size) # FileOf(b)

\* C19 amended: when a replacement unit file is longer than the distance from
\* its block to the next occupied block, repack completes and records the
\* full new size in the index; every byte where the two spans overlap holds
\* the byte of the unit file packed last (in index order) among the entries
\* whose span covers it, so the next unit's region is overwritten when the
\* longer unit comes later in the index, and the longer unit's tail is
\* overwritten when it comes earlier.
C19_OverflowLastPackedWins ==
    Repacked =>
        \A i, j \in 1..Len(repackCall.new_entries) :
            LET a == repackCall.new_entries[i]
                b == repackCall.new_entries[j]
            IN OverflowsInto(a, b) =>
                   /\ a.size = FileOf(a).len
                   /\ b.size = FileOf(b).len
                   /\ SpanHi(a) <= repackCall.archive_data.len
                   /\ \A p \in SpanLo(b)..(Min(SpanHi(a), SpanHi(b)) - 1) :
                          LET w == repackCall.new_entries[LastCovering(p)]
                          IN ByteAt(repackCall.archive_data, p) = ByteAt(FileOf(w), p - SpanLo(w))

\* a repack in which the second entry of the index, in block 0, is a unit
\* file of 2049 bytes and the first, in block 1, holds a non-zero first byte:
\* the first byte of block 1 is the last byte of the longer file
C19_Witness ==
    /\ Repacked
    /\ Len(repackCall.new_entries) = 2
    /\ repackCall.new_entries[1].idx = 1
    /\ repackCall.new_entries[2].idx = 0
    /\ repackCall.new_entries[2].size = 2049
    /\ repackCall.new_entries[1].name # repackCall.new_entries[2].name
    /\ ByteAt(FileOf(repackCall.new_entries[1]), 0) # 0
    /\ ByteAt(FileOf(repackCall.new_entries[2]), 2048) # 0
    /\ ByteAt(repackCall.archive_data, 2048) = ByteAt(FileOf(repackCall.new_entries[2]), 2048)
    /\ ByteAt(repackCall.archive_data, 2048) # ByteAt(FileOf(repackCall.new_entries[1]), 0)

-----------------------------------------------------------------------------
\* Properties of rebuild calls made one after the other

\* C21: after any rebuild call the container's original bytes, size and
\* segment list are what they were before the call, so a rebuild call made
\* after another one on the same container returns what it returns when made
\* alone on the container parse gave.
C21_RebuildLeavesContainer ==
    (Parsed /\ Rebuilt /\ ~rebuildCall.from_files) =>
        /\ parseCall.parsed_data.original_data = rebuildCall.parsed_data.original_data
        /\ parseCall.parsed_data.size = rebuildCall.parsed_data.size
        /\ parseCall.parsed_data.text_segments = rebuildCall.parsed_data.text_segments
        /\ parseCall.parsed_data = ParseUnit(scfFile)
        /\ "earlier" \in DOMAIN rebuildCall =>
               /\ rebuildCall.parsed_data = rebuildCall.earlier.parsed_data
               /\ rebuildCall.returned = RebuildUnit(ParseUnit(scfFile), rebuildCall.new_texts)

\* two rebuild calls on a container with two segments: the first with a text
\* that cannot be encoded and one that can, the second with other texts; the
\* two results differ from each other and from the unit
C21_Witness ==
    /\ Parsed
    /\ Rebuilt
    /\ "earlier" \in DOMAIN rebuildCall
    /\ Len(parseCall.parsed_data.text_segments) = 2
    /\ rebuildCall.earlier.new_texts = TextList(<< << 8364 >>, << 65 >> >>)
    /\ rebuildCall.new_texts = TextList(<< << 12354, 12354 >> >>)
    /\ rebuildCall.earlier.returned # scfFile
    /\ rebuildCall.returned # scfFile
    /\ rebuildCall.returned # rebuildCall.earlier.returned
    /\ parseCall.parsed_data.original_data = scfFile

-----------------------------------------------------------------------------
\* Which files a repack call writes

\* C22 as stated: after a repack call the original archive and the original
\* index hold the bytes they held before the call, also when no output paths
\* are given.
C22_RepackNeverTouchesOriginals ==
    repackCall.called =>
        /\ archiveFile = repackCall.archive_before
        /\ indexFile = repackCall.index_before

\* C22 amended: a repack call that is given output paths leaves the original
\* archive and index as they were and writes the new archive and index to the
\* output paths; a call without output paths that completes replaces the
\* original archive by the new archive and the original index by the new
\* index and writes nothing else; a call that fails writes no file.
C22_RepackWritesNamedOutputs ==
    repackCall.called =>
        IF ~repackCall.ok
        THEN /\ archiveFile = repackCall.archive_before
             /\ indexFile = repackCall.index_before
             /\ outArchive = NoFile
             /\ outIndex = NoFile
        ELSE IF repackCall.with_outputs
        THEN /\ archiveFile = repackCall.archive_before
             /\ indexFile = repackCall.index_before
             /\ outArchive = repackCall.archive_data
             /\ outIndex = repackCall.index_bytes
        ELSE /\ archiveFile = repackCall.archive_data
             /\ indexFile = repackCall.index_bytes
             /\ outArchive = NoFile
             /\ outIndex = NoFile

\* a repack without output paths after an unpack and an edit: the original
\* archive and the original index both hold other bytes than before the call
C22_Witness ==
    /\ Unpacked
    /\ Repacked
    /\ ~repackCall.with_outputs
    /\ touched # {}
    /\ archiveFile # repackCall.archive_before
    /\ indexFile # repackCall.index_before
    /\ archiveFile = repackCall.archive_data

-----------------------------------------------------------------------------
\* The text file between save_for_translation and rebuild_from_files

\* C23: the TXT that save_for_translation writes, read back by
\* rebuild_from_files, gives a list with one entry per segment whose i-th
\* entry is the i-th segment's decoded text, also when a decoded text holds a
\* line-break character.
C23_TxtOneLinePerSegment ==
    (/\ rebuildCall.called
     /\ rebuildCall.from_files
     /\ rebuildCall.with_txt
     /\ txtFile # NoFile) =>
        /\ ~rebuildCall.new_texts.none
        /\ Len(rebuildCall.new_texts.list) = Len(rebuildCall.parsed_data.text_segments)
        /\ rebuildCall.new_texts.list = ExtractTexts(rebuildCall.parsed_data)

-----------------------------------------------------------------------------
\* Properties of the output of repack as the input of a second round

\* the second round has been opened on the output of a first repack
SecondRound == outArchive # NoFile /\ (repackCall.called => ~repackCall.with_outputs)
SecondUnpacked == SecondRound /\ unpackCall.called
SecondRepacked == SecondRound /\ repackCall.called

\* C24: every entry recorded in the new index ends within the new archive,
\* blockIndex*2048 + newSize <= length of the new archive, whatever the sizes
\* of the unit files, and unpacking the new archive with the new index
\* extracts every entry of the new index.
C24_RepackOutputExtractable ==
    /\ Repacked =>
           \A k \in 1..Len(repackCall.new_entries) :
               SpanHi(repackCall.new_entries[k]) <= repackCall.archive_data.len
    /\ (SecondUnpacked /\ ~repackCall.called) =>
           /\ unpackCall.ok
           /\ unpackCall.entries = repackCall.first.new_entries
           /\ unpackCall.archive_data = repackCall.first.archive_data
           /\ unpackCall.extracted = Len(unpackCall.entries)
           /\ Len(unpackCall.writes) = Len(unpackCall.entries)

\* the first repack packed a unit file that reaches beyond the block count of
\* the index, so that the archive grew, and the second round's unpack
\* extracted it
C24_Witness ==
    /\ SecondUnpacked
    /\ ~repackCall.called
    /\ unpackCall.ok
    /\ unpackCall.extracted = 2
    /\ unpackCall.archive_data.len > TotalBlocks(unpackCall.entries) * BLOCK_SIZE
    /\ \E k \in 1..Len(unpackCall.entries) :
           SpanHi(unpackCall.entries[k]) = unpackCall.archive_data.len

-----------------------------------------------------------------------------
\* What the output of repack depends on

\* C26: two repack runs given the same original index and the same unit
\* files produce identical archives and identical indexes whatever the
\* contents and the length of the original archive: the second run, over
\* another archive, completes and writes what the first run wrote.
C26_RepackIgnoresOriginalArchive ==
    SecondRepacked =>
        /\ repackCall.ok
        /\ repackCall.archive_data = outArchive
        /\ repackCall.index_bytes = outIndex
        /\ archiveFile = outArchive
        /\ indexFile = outIndex

\* the first run packed an edited unit and an unpacked one from an archive
\* with non-zero bytes; the second run was made over a longer archive with
\* other bytes at the places the units are packed to
C26_Witness ==
    /\ SecondRepacked
    /\ repackCall.ok
    /\ Unpacked
    /\ touched # {}
    /\ Len(repackCall.new_entries) = 2
    /\ DistinctNames(repackCall.new_entries)
    /\ repackCall.archive_before.len = 3 * BLOCK_SIZE
    /\ unpackCall.archive_data.len < 3 * BLOCK_SIZE
    /\ DOMAIN unpackCall.archive_data.nz # {}
    /\ \A p \in DOMAIN outArchive.nz :
           /\ p \in DOMAIN repackCall.archive_before.nz
           /\ repackCall.archive_before.nz[p] # outArchive.nz[p]
    /\ DOMAIN outArchive.nz # {}
    /\ archiveFile = outArchive

-----------------------------------------------------------------------------
\* Properties of reading a written index

\* a name that is a non-empty ASCII string of at most 8 characters without a
\* null character
PlainName(name) ==
    /\ Len(name) \in 1..8
    /\ \A i \in 1..Len(name) : name[i] \in 1..127

PlainEntries(entries) ==
    \A k \in 1..Len(entries) :
        /\ PlainName(entries[k].name)
        /\ entries[k].idx \in 0..2147483647
        /\ entries[k].size \in 0..2147483647

OutputRead == readCall.called /\ "of_output" \in DOMAIN readCall /\ writeCall.called

\* C27: for every entry list whose names are non-empty ASCII strings of at
\* most 8 characters without null characters and whose numbers fit in 32
\* bits, reading the bytes that PFTParser.write produced returns the same
\* entry list in the same order, and the header read back is the header
\* written: the parser's header with the count patched, or the default header.
C27_WriteReadRoundTrip ==
    (OutputRead /\ PlainEntries(writeCall.entries)) =>
        /\ readCall.ok
        /\ readCall.returned = writeCall.entries
        /\ pftEntries = writeCall.entries
        /\ Len(pftHeader) = 16
        /\ pftHeader = PySlice(outIndex, 0, 16)
        /\ pftHeader = IF writeCall.header = << >>
                       THEN DefaultHeader(Len(writeCall.entries))
                       ELSE PatchCount(writeCall.header, Len(writeCall.entries))
        /\ U32At(pftHeader, 4) = Len(writeCall.entries)

\* two entries with a name of eight characters and a name of one character,
\* with a four-byte block number, written after a read and read back
C27_Witness ==
    /\ OutputRead
    /\ writeCall.after_read
    /\ PlainEntries(writeCall.entries)
    /\ Len(writeCall.entries) = 2
    /\ Len(writeCall.entries[1].name) = 8
    /\ writeCall.entries[1].idx = 16909060
    /\ Len(writeCall.entries[2].name) = 1
    /\ pftEntries = writeCall.entries
    /\ writeCall.header # pftHeader

-----------------------------------------------------------------------------
\* Properties of the verifier on what the packer wrote

Verified == verifyCall.called

\* the spans of the entries are pairwise disjoint
NonOverlapping(entries) ==
    \A i, j \in 1..Len(entries) :
        i # j => (SpanHi(entries[i]) <= SpanLo(entries[j])
                  \/ SpanHi(entries[j]) <= SpanLo(entries[i]))

\* every entry ends within its own block
WithinBlocks(entries) ==
    \A k \in 1..Len(entries) : entries[k].size <= BLOCK_SIZE

\* C28: for every archive and index written by repack from unit files that
\* are in range and do not overlap, verify_integrity reports zero entry
\* errors and returns True.
C28_VerifierAcceptsPackerOutput ==
    (/\ Verified
     /\ repackCall.new_entries # << >>
     /\ NonOverlapping(repackCall.new_entries)
     /\ WithinBlocks(repackCall.new_entries)) =>
        /\ verifyCall.result.ok
        /\ verifyCall.result.errors = 0
        /\ verifyCall.result.returned

====
